---- MODULE Spec2Model ----
(***************************************************************************)
(* Model of src/donuts.py: class Donuts, which measures the translational  *)
(* shift between a reference image and a check image from the circular     *)
(* cross-correlation of their projections.                                 *)
(*                                                                         *)
(* Conventions of the model.                                               *)
(*  - Real numbers are exact rationals.  A scalar is a record              *)
(*    [num, den]; den = 0 stands for the IEEE results of a division by     *)
(*    zero (0/0 = nan, +-1/0 = +-inf).  An array is a record [num, den]    *)
(*    whose num is a sequence of rows of integers sharing the denominator  *)
(*    den.  Floating-point rounding is not modelled.                       *)
(*  - Python index i of a sequence is TLA+ index i + 1.                    *)
(*  - The instance's attributes are the record self: an attribute exists   *)
(*    once it has been assigned (DOMAIN self).                             *)
(*  - An unqualified name that the source uses for an attribute of the     *)
(*    same object (dx, dy, ref_data, __generate_bkg_map) denotes that      *)
(*    attribute, and measure_shift is called as a method.                  *)
(*  - A slice whose bounds are floats takes their integer parts.           *)
(***************************************************************************)
EXTENDS Integers, Sequences, FiniteSets, TLC

VARIABLES self, calls, probe

vars == <<self, calls, probe>>

-----------------------------------------------------------------------------
(* Exact arithmetic *)

Abs(n) == IF n < 0 THEN -n ELSE n

Sign(n) == IF n < 0 THEN -1 ELSE IF n > 0 THEN 1 ELSE 0

RECURSIVE GCD(_, _)
GCD(a, b) == IF b = 0 THEN a ELSE GCD(b, a % b)

(* n / d as numpy evaluates it: a finite quotient, or nan / inf for d = 0 *)
Rat(n, d) ==
    IF d = 0 THEN [num |-> Sign(n), den |-> 0]
    ELSE LET g == GCD(Abs(n), Abs(d))
         IN  [num |-> Sign(d) * (n \div g), den |-> Abs(d) \div g]

IsFinite(r) == r.den # 0

RatInt(k) == [num |-> k, den |-> 1]

RatNeg(r) == [num |-> -r.num, den |-> r.den]

RatAdd(r, s) ==
    IF r.den = 0 /\ s.den = 0
      THEN (IF r.num = s.num THEN r ELSE [num |-> 0, den |-> 0])
    ELSE IF r.den = 0 THEN r
    ELSE IF s.den = 0 THEN s
    ELSE Rat(r.num * s.den + s.num * r.den, r.den * s.den)

RatSub(r, s) == RatAdd(r, RatNeg(s))

RatDiv(r, s) ==
    IF r.den = 0 \/ s.den = 0
      THEN (IF r.den = 0 /\ s.den # 0
              THEN [num |-> r.num * (IF s.num < 0 THEN -1 ELSE 1), den |-> 0]
              ELSE IF r.den # 0 THEN RatInt(0) ELSE [num |-> 0, den |-> 0])
    ELSE Rat(r.num * s.den, r.den * s.num)

RatLeq(r, s) == r.den # 0 /\ s.den # 0 /\ r.num * s.den <= s.num * r.den

RatAbs(r) == [num |-> Abs(r.num), den |-> r.den]

(* floor(n / d) for d > 0 *)
Floor(n, d) == n \div d

(* round(n / d) for d > 0 *)
Round(n, d) == Floor(2 * n + d, 2 * d)

RECURSIVE SumSeq(_)
SumSeq(s) == IF s = <<>> THEN 0 ELSE Head(s) + SumSeq(Tail(s))

Min(a, b) == IF a < b THEN a ELSE b

-----------------------------------------------------------------------------
(* The image source: fits.open(name)[image_ext] gives a header and a 2-D   *)
(* array.  The frames of the model are synthetic: a sky level with one     *)
(* source on it, displaced by (sx, sy) pixels from the frame's centre.     *)

MaxShift == 1

Shifts == (-MaxShift) .. MaxShift

Sky == 4

(* the block size a detector's dimensions are tested against *)
Block == 16

Frame == Block

SmallFrame == Block - 6

Kinds == {"star", "comet", "flat", "small", "missing"}

StarFiles ==
    {f \in [kind : {"star"}, sx : Shifts, sy : Shifts] : f.sx = 0 \/ f.sy = 0}

Files == StarFiles \cup [kind : Kinds \ {"star"}, sx : {0}, sy : {0}]

(* whether fits.open finds the file *)
FitsExists(f) == f.kind # "missing"

(* float(h[image_ext].header[exposure]) *)
FitsExptime(f) == IF f.kind = "comet" THEN 1 ELSE 2

(* h[image_ext].data.shape, (rows, columns) *)
FitsShape(f) ==
    IF f.kind = "small" THEN <<SmallFrame, SmallFrame>> ELSE <<Frame, Frame>>

(* the source's profile, at (v, u) pixels from its centre *)
Blob(kind, v, u) ==
    CASE kind = "flat" -> 0
      [] kind = "comet" ->
           (CASE v = 0 /\ u = 0  -> 16
              [] v = 0 /\ u = 1  -> 12
              [] v = 0 /\ u = -1 -> 4
              [] v = 1 /\ u = 0  -> 10
              [] v = -1 /\ u = 0 -> 2
              [] OTHER -> 0)
      [] OTHER ->
           (CASE v = 0 /\ u = 0 -> 16
              [] Abs(v) + Abs(u) = 1 -> 8
              [] OTHER -> 0)

(* h[image_ext].data[y][x] *)
FitsPixel(f, y, x) ==
    LET c == FitsShape(f)[1] \div 2
    IN  Sky + Blob(f.kind, y - (c + f.sy), x - (c + f.sx))

-----------------------------------------------------------------------------
(* Arrays *)

Rows(a) == Len(a.num)

Cols(a) == IF a.num = <<>> THEN 0 ELSE Len(a.num[1])

Shape(a) == <<Rows(a), Cols(a)>>

(* the indices a slice lo:hi selects on an axis of length n (lo, hi >= 0) *)
SliceIdx(lo, hi, n) == Min(lo, n) .. (Min(hi, n) - 1)

(* data[y0:y1, x0:x1] of the file's array *)
FitsSlice(f, y0, y1, x0, x1) ==
    LET ys == SliceIdx(y0, y1, FitsShape(f)[1])
        xs == SliceIdx(x0, x1, FitsShape(f)[2])
        ny == Cardinality(ys)
        nx == Cardinality(xs)
    IN  [num |-> [i \in 1 .. ny |->
                    [j \in 1 .. nx |->
                       FitsPixel(f, Min(y0, FitsShape(f)[1]) + i - 1,
                                    Min(x0, FitsShape(f)[2]) + j - 1)]],
         den |-> 1]

(* a - b elementwise, for arrays of one shape, over the least common      *)
(* denominator                                                             *)
ArraySub(a, b) ==
    IF a.den = 0 \/ b.den = 0
      THEN [num |-> [i \in 1 .. Rows(a) |-> [j \in 1 .. Cols(a) |-> 0]], den |-> 0]
      ELSE LET g == GCD(a.den, b.den)
           IN  [num |-> [i \in 1 .. Rows(a) |->
                           [j \in 1 .. Cols(a) |->
                              a.num[i][j] * (b.den \div g)
                                - b.num[i][j] * (a.den \div g)]],
                den |-> (a.den \div g) * b.den]

(* a / t for a scalar t *)
ArrayDivScalar(a, t) == [num |-> a.num, den |-> a.den * t]

(* np.sum(a, axis=0): one sum per column *)
SumAxis0(a) ==
    [num |-> [j \in 1 .. Cols(a) |-> SumSeq([i \in 1 .. Rows(a) |-> a.num[i][j]])],
     den |-> a.den]

(* np.sum(a, axis=1): one sum per row *)
SumAxis1(a) ==
    [num |-> [i \in 1 .. Rows(a) |-> SumSeq(a.num[i])], den |-> a.den]

-----------------------------------------------------------------------------
(* Background map *)

(* TrueDiv as the floor division of integers *)
TrueDiv_floor(a, b) == [num |-> a \div b, den |-> 1]

(* a / b under "from __future__ import division" *)
TrueDiv(a, b) == [num |-> a, den |-> b]

(* int(i * t) for a rational t >= 0 *)
IntOf(i, t) == Floor(i * t.num, t.den)

(* the k-th smallest element of the sequence vals, k in 1 .. Len(vals) *)
Kth(vals, k) ==
    CHOOSE v \in {vals[i] : i \in DOMAIN vals} :
        /\ Cardinality({i \in DOMAIN vals : vals[i] < v}) < k
        /\ k <= Cardinality({i \in DOMAIN vals : vals[i] <= v})

(* twice np.median(vals), for a non-empty sequence of integers *)
Median2(vals) ==
    LET n == Len(vals)
    IN  IF n % 2 = 1 THEN 2 * Kth(vals, (n + 1) \div 2)
        ELSE Kth(vals, n \div 2) + Kth(vals, n \div 2 + 1)

(* the elements of data[y0:y1, x0:x1], row by row *)
TileValues(data, y0, y1, x0, x1) ==
    LET ys == SliceIdx(y0, y1, Rows(data))
        xs == SliceIdx(x0, x1, Cols(data))
        nx == Cardinality(xs)
        n  == Cardinality(ys) * nx
    IN  [k \in 1 .. n |->
           data.num[Min(y0, Rows(data)) + ((k - 1) \div nx) + 1]
                   [Min(x0, Cols(data)) + ((k - 1) % nx) + 1]]

(* the tile_num x tile_num grid of tile medians, in units of 1/(2 den);  *)
(* the median of an empty tile is nan, which makes the grid nan           *)
Coarse(data, tile_num, tilesizex, tilesizey) ==
    LET tile(i, j) == TileValues(data, IntOf(i, tilesizey), IntOf(i + 1, tilesizey),
                                       IntOf(j, tilesizex), IntOf(j + 1, tilesizex))
        empty == \E i, j \in 0 .. tile_num - 1 : tile(i, j) = <<>>
    IN  IF empty \/ data.den = 0
          THEN [num |-> [i \in 1 .. tile_num |-> [j \in 1 .. tile_num |-> 0]],
                den |-> 0]
          ELSE [num |-> [i \in 1 .. tile_num |->
                           [j \in 1 .. tile_num |-> Median2(tile(i - 1, j - 1))]],
                den |-> 2 * data.den]

(* ndimage.zoom's output length on an axis of n samples zoomed by z *)
ZoomLen(n, z) == Round(n * z.num, z.den)

(* the input sample nearest the input coordinate of output index o *)
ZoomSrc(o, n, out) == IF out <= 1 THEN 0 ELSE Round(o * (n - 1), out - 1)

(* ndimage.zoom(coarse, (zy, zx), order=2).  The output's shape is         *)
(* ndimage's.  Output index o reads the input at coordinate                *)
(* o (n - 1) / (out - 1); where that is a sample the value is ndimage's,   *)
(* in between the spline's value is replaced by the nearest sample's.      *)
Zoom(coarse, zy, zx) ==
    LET ny == ZoomLen(Rows(coarse), zy)
        nx == ZoomLen(Cols(coarse), zx)
    IN  [num |-> [i \in 1 .. ny |->
                    [j \in 1 .. nx |->
                       coarse.num[ZoomSrc(i - 1, Rows(coarse), ny) + 1]
                                 [ZoomSrc(j - 1, Cols(coarse), nx) + 1]]],
         den |-> coarse.den]

generate_bkg_map(data, tile_num, tilesizex, tilesizey) ==
    Zoom(Coarse(data, tile_num, tilesizex, tilesizey), tilesizey, tilesizex)


-----------------------------------------------------------------------------
(* Donuts.__init__ *)

NoAttrs == [a \in {} |-> 0]

Has(obj, attr) == attr \in DOMAIN obj

Raised(exc) == [status |-> "raise", exc |-> exc, obj |-> NoAttrs]

(* np.linspace(0, n, n) *)
Linspace(n) ==
    [num |-> [k \in 1 .. n |-> (k - 1) * n], den |-> IF n = 1 THEN 1 ELSE n - 1]

SameShape(a, b) == Shape(a) = Shape(b)

(* lines 19-29: the configuration, the header and the frame's shape *)
InitHeader(refimage, boarder, ntiles, normalise, subtract_bkg) ==
    [image_ext |-> 0, boarder |-> boarder, ntiles |-> ntiles,
     normalise |-> normalise, refimage |-> refimage,
     subtract_bkg |-> subtract_bkg,
     texp |-> FitsExptime(refimage),
     dy |-> FitsShape(refimage)[1], dx |-> FitsShape(refimage)[2]]

(* lines 39-50: the working frame, the cropped data and the tile sizes *)
InitGeometry(o) ==
    LET data == FitsSlice(o.refimage, o.boarder, o.dy - o.boarder,
                                      o.boarder, o.dx - o.boarder)
    IN  o @@ [dimx |-> o.dx, dimy |-> o.dy, ref_data |-> data,
              w_dimy |-> Rows(data), w_dimx |-> Cols(data),
              tilesizex |-> TrueDiv(Cols(data), o.ntiles),
              tilesizey |-> TrueDiv(Rows(data), o.ntiles)]

(* lines 56-63: normalisation, projections and the coordinate vectors *)
InitProject(o) ==
    LET data == IF o.normalise THEN ArrayDivScalar(o.ref_data, o.texp)
                ELSE o.ref_data
    IN  [o EXCEPT !.ref_data = data] @@
        [ref_xproj |-> SumAxis0(data), ref_yproj |-> SumAxis1(data),
         x |-> Linspace(Cols(data)), y |-> Linspace(Rows(data))]

(* the outcome of Donuts(refimage, ...): the object, or the exception *)
Construct(refimage, boarder, ntiles, normalise, subtract_bkg) ==
    IF ~FitsExists(refimage) THEN Raised("IOError")
    ELSE
    LET o1 == InitHeader(refimage, boarder, ntiles, normalise, subtract_bkg)
    IN  IF o1.dx % Block # 0 \/ o1.dy % Block # 0
          THEN Raised("AttributeError")       \* self.base is not defined
        ELSE
        LET o2  == InitGeometry(o1)
            bkg == generate_bkg_map(o2.ref_data, o2.ntiles,
                                    o2.tilesizex, o2.tilesizey)
        IN  IF ~o2.subtract_bkg
              THEN [status |-> "object", exc |-> "", obj |-> InitProject(o2)]
            ELSE IF ~SameShape(o2.ref_data, bkg)
              THEN Raised("ValueError")       \* operands could not be broadcast
            ELSE [status |-> "object", exc |-> "",
                  obj |-> InitProject([o2 EXCEPT !.ref_data = ArraySub(@, bkg)]
                                      @@ [bkgmap |-> bkg])]

-----------------------------------------------------------------------------
(* Cross-correlation and the location of its maximum *)

(* ifft(conjugate(fft(r)) * fft(c)): the circular cross-correlation        *)
(* Phi[m] = sum over n of r[n] c[(n + m) mod L]                            *)
CrossCorrelate(r, c) ==
    LET L == Len(r.num)
    IN  [num |-> [m \in 1 .. L |->
                    SumSeq([n \in 1 .. L |->
                              r.num[n] * c.num[((n - 1 + m - 1) % L) + 1]])],
         den |-> r.den * c.den]

(* np.where(Phi == max(Phi))[0][0]: the first index of the maximum *)
ArgMax(Phi) ==
    CHOOSE p \in 0 .. Len(Phi.num) - 1 :
        /\ \A q \in 0 .. Len(Phi.num) - 1 : Phi.num[q + 1] <= Phi.num[p + 1]
        /\ \A q \in 0 .. p - 1 : Phi.num[q + 1] < Phi.num[p + 1]

(* Phi[i].real for a Python index i, negative indices counting from the end *)
Real(Phi, i) == Phi.num[(IF i < 0 THEN i + Len(Phi.num) ELSE i) + 1]

(* polyfit(lra, tst, 2): the parabola a x^2 + b x + c through three        *)
(* points; tst holds numerators over den                                   *)
PolyFit(lra, tst, den) ==
    LET d0 == (lra[1] - lra[2]) * (lra[1] - lra[3])
        d1 == (lra[2] - lra[1]) * (lra[2] - lra[3])
        d2 == (lra[3] - lra[1]) * (lra[3] - lra[2])
        a  == tst[1] * d1 * d2 + tst[2] * d0 * d2 + tst[3] * d0 * d1
        b  == -(  tst[1] * (lra[2] + lra[3]) * d1 * d2
                + tst[2] * (lra[1] + lra[3]) * d0 * d2
                + tst[3] * (lra[1] + lra[2]) * d0 * d1)
    IN  [a |-> Rat(a, d0 * d1 * d2 * den), b |-> Rat(b, d0 * d1 * d2 * den)]

(* coeffs[1] / (2 * coeffs[0]) *)
Ratio(coeffs) == RatDiv(coeffs.b, Rat(2 * coeffs.a.num, coeffs.a.den))

(* the fit through the samples at p - 1, p, p + 1 (lines 140-144) *)
FitAt(Phi, p) ==
    PolyFit(<<p - 1, p, p + 1>>,
            <<Real(Phi, p - 1), Real(Phi, p), Real(Phi, p + 1)>>, Phi.den)

(* the fit of the right boundary (lines 156-160) *)
FitLast(Phi) ==
    PolyFit(<<-1, 0, 1>>, <<Real(Phi, -2), Real(Phi, -1), Real(Phi, 0)>>, Phi.den)

(* the fit of the left boundary (lines 164-168) *)
FitFirst(Phi) ==
    PolyFit(<<1, 0, -1>>, <<Real(Phi, -1), Real(Phi, 0), Real(Phi, 1)>>, Phi.den)

(* InFirstHalf with the midpoint left to the second half *)
InFirstHalf_strict(p, L) == 2 * p < L

(* lines 139, 174: p <= len(Phi) / 2 under true division *)
InFirstHalf(p, L) == 2 * p <= L

(* line 146 *)
SolutionFirstHalf(Phi, p) == RatNeg(RatNeg(Ratio(FitAt(Phi, p))))

(* SolutionSecondHalf with the vertex added: len + (-b / 2a) *)
SolutionSecondHalf_plusvertex(Phi, p) ==
    RatAdd(RatInt(Len(Phi.num)), RatNeg(Ratio(FitAt(Phi, p))))

(* line 154 *)
SolutionSecondHalf(Phi, p) == RatAdd(RatInt(Len(Phi.num)), Ratio(FitAt(Phi, p)))

(* line 162 *)
SolutionLast(Phi) == RatAdd(RatInt(1), Ratio(FitLast(Phi)))

(* line 170 *)
SolutionFirst(Phi) == RatNeg(Ratio(FitFirst(Phi)))

(* which of the x chain's arms runs: if / elif / elif / else *)
BranchX(p, L) ==
    IF InFirstHalf(p, L) THEN "first_half"
    ELSE IF (~InFirstHalf(p, L)) /\ p # L - 1 THEN "second_half"
    ELSE IF p = L - 1 THEN "last"
    ELSE "first"

(* lines 139-170: the x chain; the outcome is the exception or the value *)
RefineX(Phi, p) ==
    LET L == Len(Phi.num)
        b == BranchX(p, L)
    IN  IF L < 2 \/ (b \in {"first_half", "second_half"} /\ p + 1 >= L)
          THEN [status |-> "raise", exc |-> "IndexError", val |-> RatInt(0)]
        ELSE [status |-> "ok", exc |-> "",
              val |-> CASE b = "first_half"  -> SolutionFirstHalf(Phi, p)
                        [] b = "second_half" -> SolutionSecondHalf(Phi, p)
                        [] b = "last"        -> SolutionLast(Phi)
                        [] OTHER             -> SolutionFirst(Phi)]

(* the arms of the y chain that run, in order: if, if, if / else *)
BranchesY(p, L) ==
    (IF InFirstHalf(p, L) THEN <<"first_half">> ELSE <<>>) \o
    (IF (~InFirstHalf(p, L)) /\ p # L - 1 THEN <<"second_half">> ELSE <<>>) \o
    (IF p = L - 1 THEN <<"last">> ELSE <<"first">>)

(* lines 174-205: the y chain; every arm that runs assigns solution_n_y,   *)
(* so the last one to run decides it                                       *)
RefineY(Phi, p) ==
    LET L  == Len(Phi.num)
        bs == BranchesY(p, L)
        b  == bs[Len(bs)]
    IN  IF \/ L < 2
           \/ (\E k \in DOMAIN bs : bs[k] \in {"first_half", "second_half"}) /\ p + 1 >= L
          THEN [status |-> "raise", exc |-> "IndexError", val |-> RatInt(0)]
        ELSE [status |-> "ok", exc |-> "",
              val |-> CASE b = "first_half"  -> SolutionFirstHalf(Phi, p)
                        [] b = "second_half" -> SolutionSecondHalf(Phi, p)
                        [] b = "last"        -> SolutionLast(Phi)
                        [] OTHER             -> SolutionFirst(Phi)]


-----------------------------------------------------------------------------
(* Donuts.measure_shift, statement by statement.  A call is a frame: its   *)
(* position pc, its argument, its local variables and its outcome.  The    *)
(* attributes it assigns live on the object, which every call shares.      *)

Set(obj, attr, val) ==
    IF attr \in DOMAIN obj THEN [obj EXCEPT ![attr] = val] ELSE obj @@ (attr :> val)

NoArray == [num |-> <<>>, den |-> 1]

NoFile == [kind |-> "missing", sx |-> 0, sy |-> 0]

NoResult == [status |-> "none", exc |-> "", x |-> RatInt(0), y |-> RatInt(0)]

IdleFrame ==
    [pc |-> "idle", checkimage |-> NoFile, Phi_x |-> NoArray, Phi_y |-> NoArray,
     z_pos_x |-> 0, z_pos_y |-> 0, ret |-> NoResult]

(* the call ends with an exception: its locals are gone *)
Raise(o, fr, exc) ==
    [self |-> o,
     frame |-> [IdleFrame EXCEPT !.checkimage = fr.checkimage,
                                 !.ret = [NoResult EXCEPT !.status = "raise",
                                                          !.exc = exc]]]

Goto(o, fr, pc) == [self |-> o, frame |-> [fr EXCEPT !.pc = pc]]

(* CheckCrop with the window one pixel off *)
CheckCrop_offbyone(o, f) ==
    FitsSlice(f, o.boarder + 1, o.dimy - o.boarder + 1,
                 o.boarder + 1, o.dimx - o.boarder + 1)

(* lines 101-102: the crop of the check image *)
CheckCrop(o, f) ==
    FitsSlice(f, o.boarder, o.dimy - o.boarder, o.boarder, o.dimx - o.boarder)

(* lines 99-102 *)
StepLoad(o, fr) ==
    LET o1 == Set(o, "checkimage", fr.checkimage)
    IN  IF ~FitsExists(fr.checkimage) THEN Raise(o1, fr, "IOError")
        ELSE Goto(Set(o1, "check_data", CheckCrop(o1, fr.checkimage)), fr, "bkgmap")

(* lines 105-106 *)
StepBkgMap(o, fr) ==
    IF o.subtract_bkg
      THEN Goto(Set(o, "check_bkgmap",
                    generate_bkg_map(o.check_data, o.ntiles,
                                     o.tilesizex, o.tilesizey)), fr, "bkgsub")
      ELSE Goto(o, fr, "norm")

(* line 107 *)
StepBkgSub(o, fr) ==
    IF ~SameShape(o.check_data, o.check_bkgmap) THEN Raise(o, fr, "ValueError")
    ELSE Goto(Set(o, "check_data", ArraySub(o.check_data, o.check_bkgmap)),
              fr, "norm")

(* StepNormalise assigning the reference's attribute *)
StepNormalise_refdata(o, fr) ==
    IF o.normalise
      THEN Goto(Set(Set(o, "check_data", ArrayDivScalar(o.check_data, o.texp)),
                    "ref_data", ArrayDivScalar(o.check_data, o.texp)),
                fr, "proj")
      ELSE Goto(o, fr, "proj")

(* lines 108-109 *)
StepNormalise(o, fr) ==
    IF o.normalise
      THEN Goto(Set(o, "check_data", ArrayDivScalar(o.check_data, o.texp)),
                fr, "proj")
      ELSE Goto(o, fr, "proj")

(* StepProject keeping projections an earlier call left on the object *)
StepProject_cached(o, fr) ==
    IF Has(o, "check_xproj") THEN Goto(o, fr, "corr")
    ELSE Goto(Set(Set(o, "check_xproj", SumAxis0(o.check_data)),
                  "check_yproj", SumAxis1(o.check_data)), fr, "corr")

(* lines 111-112 *)
StepProject(o, fr) ==
    Goto(Set(Set(o, "check_xproj", SumAxis0(o.check_data)),
             "check_yproj", SumAxis1(o.check_data)), fr, "corr")

(* lines 115-130 *)
StepCorrelate(o, fr) ==
    IF \/ Len(o.check_xproj.num) # Len(o.ref_xproj.num)
       \/ Len(o.check_yproj.num) # Len(o.ref_yproj.num)
      THEN Raise(o, fr, "ValueError")
    ELSE
    LET px == CrossCorrelate(o.ref_xproj, o.check_xproj)
        py == CrossCorrelate(o.ref_yproj, o.check_yproj)
    IN  IF px.den = 0 \/ py.den = 0 THEN Raise(o, fr, "IndexError")
        ELSE Goto(o, [fr EXCEPT !.Phi_x = px, !.Phi_y = py,
                                !.z_pos_x = ArgMax(px), !.z_pos_y = ArgMax(py)],
                  "refx")

(* lines 135-171 *)
StepRefineX(o, fr) ==
    LET r == RefineX(fr.Phi_x, fr.z_pos_x)
    IN  IF r.status = "raise" THEN Raise(o, fr, r.exc)
        ELSE Goto(Set(o, "solution_n_x", r.val), fr, "refy")

(* lines 173-206 *)
StepRefineY(o, fr) ==
    LET r == RefineY(fr.Phi_y, fr.z_pos_y)
    IN  IF r.status = "raise" THEN Raise(o, fr, r.exc)
        ELSE Goto(Set(o, "solution_n_y", r.val), fr, "ret")

(* line 207 *)
StepReturn(o, fr) ==
    [self |-> o,
     frame |-> [IdleFrame EXCEPT !.checkimage = fr.checkimage,
                                 !.ret = [status |-> "ok", exc |-> "",
                                          x |-> o.solution_n_x,
                                          y |-> o.solution_n_y]]]

(* the next statement of a running call *)
Step(o, fr) ==
    CASE fr.pc = "load"   -> StepLoad(o, fr)
      [] fr.pc = "bkgmap" -> StepBkgMap(o, fr)
      [] fr.pc = "bkgsub" -> StepBkgSub(o, fr)
      [] fr.pc = "norm"   -> StepNormalise(o, fr)
      [] fr.pc = "proj"   -> StepProject(o, fr)
      [] fr.pc = "corr"   -> StepCorrelate(o, fr)
      [] fr.pc = "refx"   -> StepRefineX(o, fr)
      [] fr.pc = "refy"   -> StepRefineY(o, fr)
      [] fr.pc = "ret"    -> StepReturn(o, fr)

(* a call entered with its argument bound *)
Enter(checkimage) == [IdleFrame EXCEPT !.pc = "load", !.checkimage = checkimage]

RECURSIVE Run(_, _)
(* a call run to its end without another call's statements in between *)
Run(o, fr) ==
    IF fr.pc = "idle" THEN [self |-> o, frame |-> fr]
    ELSE LET m == Step(o, fr) IN Run(m.self, m.frame)

(* d.measure_shift(checkimage) on the object o, run alone *)
measure_shift(o, checkimage) == Run(o, Enter(checkimage))

-----------------------------------------------------------------------------
(* The engine used by one caller: construction, then any number of calls   *)

Threads == {1, 2}

Boarders == {5}

MaxTiles == 2

TileCounts == 1 .. MaxTiles

(* the constructor's arguments; the tile count is read only when the      *)
(* background is subtracted                                                *)
Configs ==
    {c \in [boarder : Boarders, ntiles : TileCounts,
            normalise : BOOLEAN, subtract_bkg : BOOLEAN] :
        c.subtract_bkg \/ c.ntiles = 1}

Constructed == self # NoAttrs

Init ==
    /\ self = NoAttrs
    /\ calls = [t \in Threads |-> IdleFrame]
    /\ probe = <<>>

(* d = Donuts(refimage, ...): the object exists if __init__ returns *)
DoConstruct ==
    /\ ~Constructed
    /\ \E refimage \in Files, c \in Configs :
          LET r == Construct(refimage, c.boarder, c.ntiles,
                             c.normalise, c.subtract_bkg)
          IN  /\ self' = r.obj
              /\ calls' = [calls EXCEPT ![1].ret.status = r.status,
                                        ![1].ret.exc = r.exc]
    /\ UNCHANGED probe

(* x, y = d.measure_shift(checkimage), the whole call; probe records      *)
(* whether the object had been used by an earlier call                     *)
DoMeasureShift ==
    /\ Constructed
    /\ \E checkimage \in Files :
          LET m == measure_shift(self, checkimage)
          IN  /\ self' = m.self
              /\ calls' = [calls EXCEPT ![1] = m.frame]
    /\ probe' = IF Has(self, "checkimage") THEN "reused" ELSE "first"

Next == DoConstruct \/ DoMeasureShift

Spec == Init /\ [][Next]_vars


-----------------------------------------------------------------------------
(* Properties of the engine used by one caller *)

Last == calls[1]

Returned == Constructed /\ Last.ret.status = "ok"

Ended == Constructed /\ Last.ret.status \in {"ok", "raise"}

NonFlat(proj) == \E i, j \in DOMAIN proj.num : proj.num[i] # proj.num[j]

(* C1: a call whose check image is the reference image itself, on a        *)
(* reference with non-flat projections, finds the correlation peak at      *)
(* index 0 on both axes and returns (0, 0).                                *)
C1_ZeroShiftIdentity ==
    (/\ Returned
     /\ Last.checkimage = self.refimage
     /\ NonFlat(self.ref_xproj) /\ NonFlat(self.ref_yproj))
    => /\ ArgMax(CrossCorrelate(self.ref_xproj, self.check_xproj)) = 0
       /\ ArgMax(CrossCorrelate(self.ref_yproj, self.check_yproj)) = 0
       /\ Last.ret.x = RatInt(0)
       /\ Last.ret.y = RatInt(0)

C1_Witness ==
    /\ Returned
    /\ Last.checkimage = self.refimage
    /\ self.refimage.kind = "comet"
    /\ self.subtract_bkg /\ self.normalise
    /\ NonFlat(self.ref_xproj) /\ NonFlat(self.ref_yproj)
    /\ Last.ret.x = RatInt(0) /\ Last.ret.y = RatInt(0)

(* the source lies inside the cropped window of the object *)
Inside(f) ==
    /\ f.kind = "star"
    /\ \A s \in {f.sx, f.sy} :
          /\ Frame \div 2 + s - 1 >= self.boarder
          /\ Frame \div 2 + s + 1 < Frame - self.boarder

Within(r, k, n, d) == RatLeq(RatAbs(RatSub(r, RatInt(k))), Rat(n, d))

(* C2: when the check image is the reference translated by (a, b) pixels   *)
(* in the positive-index direction, the call returns (a, b) to within 0.1  *)
(* pixel (and so (-a, -b) with the two images exchanged).                  *)
C2_ShiftAntisymmetry ==
    (/\ Returned
     /\ ~self.subtract_bkg
     /\ Inside(self.refimage) /\ Inside(Last.checkimage))
    => /\ Within(Last.ret.x, Last.checkimage.sx - self.refimage.sx, 1, 10)
       /\ Within(Last.ret.y, Last.checkimage.sy - self.refimage.sy, 1, 10)

RefAttrs ==
    {"ref_data", "ref_xproj", "ref_yproj", "texp", "boarder", "ntiles",
     "dimx", "dimy", "w_dimx", "w_dimy", "tilesizex", "tilesizey",
     "normalise", "subtract_bkg", "image_ext"}

RefState(o) == [a \in RefAttrs |-> o[a]]

(* C3: once the object is constructed, no step of any measure_shift call,  *)
(* returning or raising, changes a reference attribute.                    *)
C3_ReferenceFrozen ==
    [][Constructed => RefState(self') = RefState(self)]_vars

C3_Witness ==
    /\ Constructed
    /\ Last.ret.status = "raise"
    /\ Has(self, "solution_n_y")
    /\ ~SameShape(self.check_data, self.ref_data)

(* the object a fresh construction from the same arguments gives *)
Fresh ==
    Construct(self.refimage, self.boarder, self.ntiles,
              self.normalise, self.subtract_bkg).obj

(* C5: whatever calls came before, a call's outcome is the outcome of the  *)
(* same call made first on a freshly constructed engine.                   *)
C5_HistoryIndependence ==
    Ended => Last.ret = measure_shift(Fresh, Last.checkimage).frame.ret

C5_Witness ==
    /\ Returned
    /\ probe = "reused"
    /\ Last.checkimage.kind = "comet"
    /\ self.refimage.kind = "star"
    /\ IsFinite(Last.ret.x) /\ Last.ret.x # RatInt(0)

IsFlat(f) == f.kind = "flat"

(* C6: a call in which the reference image or the check image is flat      *)
(* raises DegenerateSignal and returns no numbers.                         *)
C6_DegenerateRejected ==
    (Ended /\ FitsExists(Last.checkimage)
      /\ (IsFlat(self.refimage) \/ IsFlat(Last.checkimage)))
    => Last.ret.status = "raise" /\ Last.ret.exc = "DegenerateSignal"


-----------------------------------------------------------------------------
(* The engine shared by two callers whose statements interleave *)

MaxCalls == 2

Origin == [kind |-> "star", sx |-> 0, sy |-> 0]

ConcFiles == {f \in Files : f.kind = "comet" \/ (f.kind = "star" /\ f.sx = 1)}

InitConc ==
    /\ \E c \in {k \in Configs : k.ntiles = 1} :
          self = Construct(Origin, c.boarder, c.ntiles,
                           c.normalise, c.subtract_bkg).obj
    /\ calls = [t \in Threads |-> IdleFrame]
    /\ probe = [t \in Threads |-> 0]

(* thread t calls d.measure_shift(checkimage); probe counts its calls *)
Call(t) ==
    /\ calls[t].pc = "idle"
    /\ probe[t] < MaxCalls
    /\ \E checkimage \in ConcFiles : calls' = [calls EXCEPT ![t] = Enter(checkimage)]
    /\ probe' = [probe EXCEPT ![t] = @ + 1]
    /\ UNCHANGED self

(* thread t runs the next statement of its call *)
Statement(t) ==
    /\ calls[t].pc # "idle"
    /\ LET m == Step(self, calls[t])
       IN  /\ self' = m.self
           /\ calls' = [calls EXCEPT ![t] = m.frame]
    /\ UNCHANGED probe

NextConc == \E t \in Threads : Call(t) \/ Statement(t)

SpecConc == InitConc /\ [][NextConc]_vars

(* C4: with two calls interleaved on one object, every call ends as it     *)
(* would have ended run alone against the reference.                       *)
C4_ConcurrentIsolation ==
    \A t \in Threads :
        calls[t].ret.status \in {"ok", "raise"}
        => calls[t].ret = measure_shift(Fresh, calls[t].checkimage).frame.ret


-----------------------------------------------------------------------------
(* The refinement chains applied to a correlation sequence (lines 127-206) *)

MinLen == 3

MaxLen == 5

MaxVal == 2

CorrInputs ==
    UNION {[1 .. L -> 0 .. MaxVal] : L \in MinLen .. MaxLen}

InitRefine ==
    /\ self = NoAttrs
    /\ calls = [t \in Threads |-> IdleFrame]
    /\ \E s \in CorrInputs :
          probe = [Phi |-> [num |-> s, den |-> 1],
                   z_pos |-> ArgMax([num |-> s, den |-> 1]),
                   stage |-> "corr",
                   solution_n_x |-> RatInt(0), solution_n_y |-> RatInt(0)]

(* lines 139-170 *)
ApplyRefineX ==
    /\ probe.stage = "corr"
    /\ probe' = [probe EXCEPT !.stage = "refx",
                   !.solution_n_x = RefineX(probe.Phi, probe.z_pos).val]
    /\ UNCHANGED <<self, calls>>

(* lines 174-205 *)
ApplyRefineY ==
    /\ probe.stage = "refx"
    /\ probe' = [probe EXCEPT !.stage = "refy",
                   !.solution_n_y = RefineY(probe.Phi, probe.z_pos).val]
    /\ UNCHANGED <<self, calls>>

NextRefine == ApplyRefineX \/ ApplyRefineY

SpecRefine == InitRefine /\ [][NextRefine]_vars

(* C9: for every correlation sequence and its peak index, the y chain      *)
(* reports the offset the x chain reports, the one arm of the four that    *)
(* the peak index selects deciding it.                                     *)
C9_AxesAgree ==
    probe.stage = "refy" => probe.solution_n_y = probe.solution_n_x

(* the abscissa of the vertex of the parabola through the samples at       *)
(* p - 1, p, p + 1                                                         *)
Vertex(Phi, p) ==
    RatAdd(RatInt(p),
           Rat(Real(Phi, p - 1) - Real(Phi, p + 1),
               2 * (Real(Phi, p - 1) - 2 * Real(Phi, p) + Real(Phi, p + 1))))

InSecondHalf(p, L) == 2 * p > L /\ p < L - 1

-----------------------------------------------------------------------------
(* A peak of fixed shape swept along a circular sequence *)

PeakShapes == [lo : 0 .. MaxVal, hi : 0 .. MaxVal]

(* the sequence of length L with the peak at index p: lo, MaxVal + 1, hi   *)
(* at p - 1, p, p + 1 (circularly) on a floor of zeros                     *)
Synth(L, shape, p) ==
    [num |-> [i \in 1 .. L |->
                CASE i - 1 = p -> MaxVal + 1
                  [] i - 1 = (p + L - 1) % L -> shape.lo
                  [] i - 1 = (p + 1) % L -> shape.hi
                  [] OTHER -> 0],
     den |-> 1]

InitSweep ==
    /\ self = NoAttrs
    /\ calls = [t \in Threads |-> IdleFrame]
    /\ \E L \in MinLen .. MaxLen, shape \in PeakShapes :
          probe = [L |-> L, shape |-> shape, p |-> 0, out |-> <<>>]

(* the x chain on the peak at the next index; out[p + 1] is the offset     *)
(* for the peak at index p                                                 *)
SweepStep ==
    /\ probe.p < probe.L
    /\ LET Phi == Synth(probe.L, probe.shape, probe.p)
       IN  probe' = [probe EXCEPT !.p = @ + 1,
                       !.out = Append(@, RefineX(Phi, ArgMax(Phi)).val)]
    /\ UNCHANGED <<self, calls>>

NextSweep == SweepStep

SpecSweep == InitSweep /\ [][NextSweep]_vars

Jump(r, s) == RatAbs(RatSub(r, s))

-----------------------------------------------------------------------------
(* The background map of an array of any shape (lines 49-55) *)

MaxDim == 5

MaxSeed == 3

(* an H x W array of irregular values *)
Pattern(H, W, seed) ==
    [num |-> [i \in 1 .. H |->
                [j \in 1 .. W |-> (seed * i * i + (seed + 2) * j + i * j) % 7]],
     den |-> 1]

InitBkg ==
    /\ self = NoAttrs
    /\ calls = [t \in Threads |-> IdleFrame]
    /\ \E H \in 1 .. MaxDim, W \in 1 .. MaxDim, seed \in 1 .. MaxSeed :
       \E N \in 1 .. Min(H, W) :
          probe = [data |-> Pattern(H, W, seed), ntiles |-> N,
                   bkgmap |-> NoArray, stage |-> "data", exc |-> ""]

(* lines 49-54: the tile sizes and the map *)
ApplyBkgMap ==
    /\ probe.stage = "data"
    /\ probe' = [probe EXCEPT !.stage = "map",
                   !.bkgmap = generate_bkg_map(probe.data, probe.ntiles,
                                  TrueDiv(Cols(probe.data), probe.ntiles),
                                  TrueDiv(Rows(probe.data), probe.ntiles))]
    /\ UNCHANGED <<self, calls>>

(* line 55: the subtraction, which raises on arrays of different shapes *)
ApplyBkgSub ==
    /\ probe.stage = "map"
    /\ probe' = IF SameShape(probe.data, probe.bkgmap)
                  THEN [probe EXCEPT !.stage = "sub",
                          !.data = ArraySub(probe.data, probe.bkgmap)]
                  ELSE [probe EXCEPT !.stage = "sub", !.exc = "ValueError"]
    /\ UNCHANGED <<self, calls>>

NextBkg == ApplyBkgMap \/ ApplyBkgSub

SpecBkg == InitBkg /\ [][NextBkg]_vars

====
